---- MODULE Spec2Model ----
(***************************************************************************)
(* A model of memtop (src/cmd/memtop/main.go): the sampling loop of main,  *)
(* the sampler fetchStats, the rate engine calculateRates and the layout   *)
(* of drawScreen.                                                          *)
(*                                                                         *)
(* Representation choices:                                                 *)
(*  - a float64 is a record [cls, num, den]: a normalised rational for a   *)
(*    finite value, or one of the IEEE specials NaN, +Inf, -Inf (rounding  *)
(*    of finite values is not modelled);                                   *)
(*  - a text line is a sequence of pieces, each piece a token (a string    *)
(*    without white space) or a run of white space;                        *)
(*  - a Go map is a TLA+ function whose DOMAIN is the key set; a nil map   *)
(*    and an empty map read the same and are both EmptyMap;                *)
(*  - a time.Time is an integer number of seconds of the monotonic clock.  *)
(***************************************************************************)
EXTENDS Integers, Sequences, FiniteSets, TLC

VARIABLES
    \* ---- main: the loop (main.go:89-136)
    pc,            \* position of main: "start", "loop", "stopTicker", "fini", "returned"
    currentStats,  \* main.go:90
    prevStats,     \* main.go:91
    rates,         \* main.go:92
    lastErr,       \* main.go:93
    stats,         \* result of the latest fetchStats call (main.go:102)
    err,           \* error of the latest fetchStats call (main.go:102)
    op,            \* the occurrence the loop processed last
    baseline,      \* prevStats as the latest successful tick found it
    now,           \* the latest reading of the monotonic clock (main.go:180)
    ticks,         \* number of fetchStats calls made by the loop
    draws,         \* number of drawScreen calls in the latest step of main
    shown,         \* what the latest drawScreen call wrote
    ticker,        \* "running" or "stopped" (main.go:86-87)
    screen,        \* "active" or "finalized" (main.go:65-69)
    size,          \* screen.Size()
    taken,         \* number of events the loop has received from eventCh
    synced,        \* the latest step of main called screen.Sync() (main.go:131)
    \* ---- the input producer goroutine (main.go:74-84)
    eventCh,       \* buffered channel content
    chClosed,      \* close(eventCh) happened
    ppc,           \* position of the goroutine: "poll", "send", "exited"
    pev,           \* the event the goroutine holds (main.go:77)
    polled,        \* number of events PollEvent has returned
    \* ---- one fetchStats call, statement by statement (main.go:140-184)
    fpc,           \* "idle", "dial", "deadline", "write", "scan", "returned"
    fNet,          \* what the network does to this call
    fIn,           \* response lines not yet scanned
    fSeen,         \* response lines scanner.Scan has returned
    fValues,       \* main.go:156
    fRaw,          \* main.go:157
    fConn,         \* "none", "open", "closed"
    fRes,          \* the returned pair (*statsSnapshot, error)
    fOpen,         \* number of connections that are open
    fCalls,        \* number of fetchStats calls begun
    \* ---- one calculateRates call (main.go:188-207)
    rpc,           \* "idle", "call", "returned"
    rCurr,         \* argument curr
    rPrev,         \* argument prev
    rOut,          \* the returned map
    \* ---- one drawScreen call (main.go:211-309)
    dpc,           \* "idle", "call", "returned"
    dSize,         \* screen.Size()
    dStats,        \* argument stats
    dRates,        \* argument rates
    dErr,          \* argument err
    dOut,          \* the drawText calls that reached the surface, in order
    dText,         \* the runes of the texts drawn: their number and byte sizes
    dCells,        \* the cells screen.SetContent was called for
    \* ---- one call of a formatter (main.go:341-382)
    fmtpc,         \* "idle", "call", "returned"
    fmtFn,         \* "formatUptime" or "formatBytes"
    fmtIn,         \* the float64 argument
    fmtOut,        \* the returned string
    \* ---- the time one fetchStats call takes (main.go:140-184)
    tpc,           \* "idle", "dial", "deadline", "write", "scan", "returned"
    tNow,          \* time.Now() since the call began, in TimeUnit
    tDeadline,     \* the deadline of conn, NoDeadline until it is set
    tLeft,         \* lines the server has yet to send before tEnd
    tEnd,          \* "END", "eof" or "err": what follows the lines
    tErr           \* the error returned

loopVars == <<pc, currentStats, prevStats, rates, lastErr, stats, err, op,
              baseline, now, ticks, draws, shown, ticker, screen, size, taken,
              synced>>
prodVars == <<eventCh, chClosed, ppc, pev, polled>>
fetchVars == <<fpc, fNet, fIn, fSeen, fValues, fRaw, fConn, fRes, fOpen, fCalls>>
rateVars == <<rpc, rCurr, rPrev, rOut>>
drawVars == <<dpc, dSize, dStats, dRates, dErr, dOut, dText, dCells>>
fmtVars == <<fmtpc, fmtFn, fmtIn, fmtOut>>
clockVars == <<tpc, tNow, tDeadline, tLeft, tEnd, tErr>>
callVars == <<drawVars, fmtVars, clockVars>>
vars == <<loopVars, prodVars, fetchVars, rateVars, callVars>>

-----------------------------------------------------------------------------
(* Bounds of the model *)

\* fetchStats calls the loop makes in one run
MaxTicks == 3
\* events PollEvent delivers in one run
MaxEvents == 2
\* lines of one response stream in the statement-level sampler runs
MaxLines == 3
\* largest timestamp drawn for a Snapshot handed to calculateRates directly
MaxTime == 2
\* largest number of rows of a surface handed to drawScreen directly
MaxRows == 14
\* fetchStats calls in a run of calls
MaxCalls == 2
\* events PollEvent delivers in a burst of input
MaxQueued == 10

-----------------------------------------------------------------------------
(* float64 *)

Abs(x) == IF x < 0 THEN -x ELSE x

RECURSIVE GCD(_, _)
GCD(a, b) == IF b = 0 THEN a ELSE GCD(b, a % b)

\* the finite value n/d, d # 0, in lowest terms with a positive denominator
Fin(n, d) ==
    LET g == GCD(Abs(n), Abs(d))
        s == IF d < 0 THEN -1 ELSE 1
    IN  [cls |-> "fin", num |-> (s * n) \div g, den |-> (s * d) \div g]

NaN == [cls |-> "nan", num |-> 0, den |-> 1]
PInf == [cls |-> "inf", num |-> 1, den |-> 1]
NInf == [cls |-> "inf", num |-> -1, den |-> 1]
Zero == Fin(0, 1)

\* a - b on float64
FSub(a, b) ==
    IF a.cls = "nan" \/ b.cls = "nan" THEN NaN
    ELSE IF a.cls = "inf" THEN (IF b = a THEN NaN ELSE a)
    ELSE IF b.cls = "inf" THEN (IF b = PInf THEN NInf ELSE PInf)
    ELSE Fin(a.num * b.den - b.num * a.den, a.den * b.den)

\* a < b on float64 (false when either is NaN)
FLt(a, b) ==
    IF a.cls = "nan" \/ b.cls = "nan" THEN FALSE
    ELSE IF a.cls = "inf" THEN a = NInf /\ b # NInf
    ELSE IF b.cls = "inf" THEN b = PInf
    ELSE a.num * b.den < b.num * a.den

\* a / b on float64 for a finite b > 0
FDiv(a, b) ==
    IF a.cls = "fin" THEN Fin(a.num * b.den, a.den * b.num) ELSE a

-----------------------------------------------------------------------------
(* Go maps *)

EmptyMap == [k \in {} |-> 0]

Put(m, k, v) == [x \in (DOMAIN m) \cup {k} |-> IF x = k THEN v ELSE m[x]]

-----------------------------------------------------------------------------
(* statsSnapshot, errors *)

\* a nil *statsSnapshot
NilSnap == [absent |-> TRUE]

Snapshot(t, values, raw) == [Timestamp |-> t, Values |-> values, Raw |-> raw]

\* a nil error
NoErr == "nil"

\* the errors fetchStats can return, one per failing call
ErrDial == "dial tcp: connection refused"
ErrDeadline == "set deadline: use of closed network connection"
ErrWrite == "write tcp: broken pipe"
ErrRead == "read tcp: i/o timeout"

-----------------------------------------------------------------------------
(* Text *)

\* a piece of a line that is white space (unicode.IsSpace on each of its runes)
IsSpace(p) == p \in {" ", "  ", "\t"}

\* strings.Fields: the maximal runs of non-space runes, in order
Fields(line) == SelectSeq(line, LAMBDA p : ~IsSpace(p))

\* strings.Join(elems, sep)
RECURSIVE Join(_, _)
Join(elems, sep) ==
    IF elems = <<>> THEN ""
    ELSE IF Len(elems) = 1 THEN elems[1]
    ELSE elems[1] \o sep \o Join(Tail(elems), sep)

\* strconv.ParseFloat(s, 64) on the value strings of the model: decimal and
\* hexadecimal literals; "NaN", "Inf", "Infinity" with an optional sign, in any
\* case; a literal out of the float64 range is an error (ErrRange)
ParseFloat(s) ==
    CASE s = "0" -> [ok |-> TRUE, val |-> Fin(0, 1)]
      [] s = "4" -> [ok |-> TRUE, val |-> Fin(4, 1)]
      [] s = "6" -> [ok |-> TRUE, val |-> Fin(6, 1)]
      [] s = "42" -> [ok |-> TRUE, val |-> Fin(42, 1)]
      [] s = "100" -> [ok |-> TRUE, val |-> Fin(100, 1)]
      [] s = "140" -> [ok |-> TRUE, val |-> Fin(140, 1)]
      [] s = "1.5" -> [ok |-> TRUE, val |-> Fin(3, 2)]
      [] s = "-3" -> [ok |-> TRUE, val |-> Fin(-3, 1)]
      [] s = "1e2" -> [ok |-> TRUE, val |-> Fin(100, 1)]
      [] s = "0x1p4" -> [ok |-> TRUE, val |-> Fin(16, 1)]
      [] s \in {"NaN", "nan"} -> [ok |-> TRUE, val |-> NaN]
      [] s \in {"Inf", "+Inf", "inf", "Infinity"} -> [ok |-> TRUE, val |-> PInf]
      [] s \in {"-Inf", "-inf", "-Infinity"} -> [ok |-> TRUE, val |-> NInf]
      [] OTHER -> [ok |-> FALSE, val |-> Zero]

-----------------------------------------------------------------------------
(* fetchStats: the scan loop *)

\* the terminator test of main.go:161
IsEnd(line) == line = <<"END">>

\* Accepted with the token count off by one
Accepted_TwoTokens(fields) == ~(Len(fields) < 2 \/ fields[1] # "STAT")

\* the acceptance test of main.go:165 (negated: the code states when to skip)
Accepted(fields) == ~(Len(fields) < 3 \/ fields[1] # "STAT")

\* the value string of an accepted line
ValueOf(fields) == Join(SubSeq(fields, 3, Len(fields)), " ")

\* the values map after an accepted line with this key and value string
StoreValue(values, key, value) ==
    LET p == ParseFloat(value)
    IN  IF p.ok THEN Put(values, key, p.val) ELSE values

\* one iteration of the loop body for a line that is not the terminator:
\* acc is the pair of maps (values, raw)
scanLine(acc, line) ==
    LET fields == Fields(line)
    IN  IF ~Accepted(fields) THEN acc
        ELSE LET key == fields[2]
                 value == ValueOf(fields)
             IN  [raw |-> Put(acc.raw, key, value),
                  values |-> StoreValue(acc.values, key, value)]

NoMaps == [raw |-> EmptyMap, values |-> EmptyMap]

\* the whole for-loop over a response: the maps when the loop is left, and how
\* it was left: "END" (break), "eof" (Scan false, Err nil) or "err" (Scan
\* false, Err non-nil). in is [lines, end]: the lines the connection delivers
\* and what follows the last of them.
RECURSIVE scanAll(_, _)
scanAll(in, acc) ==
    IF in.lines = <<>> THEN [maps |-> acc, left |-> in.end]
    ELSE IF IsEnd(Head(in.lines)) THEN [maps |-> acc, left |-> "END"]
    ELSE scanAll([in EXCEPT !.lines = Tail(@)], scanLine(acc, Head(in.lines)))

\* what fetchStats returns after the scan loop was left (main.go:175-183)
afterScan(maps, left, t) ==
    IF left = "err" THEN [stats |-> NilSnap, err |-> ErrRead]
    ELSE [stats |-> Snapshot(t, maps.values, maps.raw), err |-> NoErr]

\* fetchStats as one step. net says which of the calls before the scan loop
\* fails ("ok": none); t is time.Now() when the Snapshot is built
fetchStats(net, in, t) ==
    IF net = "dial" THEN [stats |-> NilSnap, err |-> ErrDial]
    ELSE IF net = "deadline" THEN [stats |-> NilSnap, err |-> ErrDeadline]
    ELSE IF net = "write" THEN [stats |-> NilSnap, err |-> ErrWrite]
    ELSE LET s == scanAll(in, NoMaps) IN afterScan(s.maps, s.left, t)

-----------------------------------------------------------------------------
(* calculateRates *)

\* Elapsed as the distance between the two timestamps
Elapsed_Distance(curr, prev) == Fin(Abs(curr.Timestamp - prev.Timestamp), 1)

\* curr.Timestamp.Sub(prev.Timestamp).Seconds()
Elapsed(curr, prev) == Fin(curr.Timestamp - prev.Timestamp, 1)

\* the keys the loop of main.go:197-198 writes
SharedKeys(curr, prev) == {k \in DOMAIN curr.Values : k \in DOMAIN prev.Values}

\* Clamp without the clamp
Clamp_None(diff) == diff

\* main.go:199-202
Clamp(diff) == IF FLt(diff, Zero) THEN Zero ELSE diff

RateOf(currentVal, prevVal, elapsed) ==
    FDiv(Clamp(FSub(currentVal, prevVal)), elapsed)

calculateRates(curr, prev) ==
    IF curr = NilSnap \/ prev = NilSnap THEN EmptyMap
    ELSE LET elapsed == Elapsed(curr, prev)
         IN  IF ~FLt(Zero, elapsed) THEN EmptyMap
             ELSE [key \in SharedKeys(curr, prev) |->
                      RateOf(curr.Values[key], prev.Values[key], elapsed)]

-----------------------------------------------------------------------------
(* drawScreen: which lines it writes, and where *)

\* a surface size
Size(w, h) == [w |-> w, h |-> h]

\* drawText: the text is written on row y when the row is on the surface
drawText(sz, y, text) ==
    IF y < 0 \/ y >= sz.h THEN <<>> ELSE <<[row |-> y, text |-> text]>>

\* a text of fmt.Sprintf: ascii runes of one byte each, then wide runes of
\* RuneBytes bytes each, as a server's version string or an error may hold
TextShape(ascii, wide) == [ascii |-> ascii, wide |-> wide]
RuneBytes == 3

\* the values of i in `for i, r := range text`: the byte offset each rune
\* starts at, in order
RuneOffsets(text) ==
    [k \in 1..(text.ascii + text.wide) |->
        IF k <= text.ascii THEN k - 1
        ELSE text.ascii + RuneBytes * (k - text.ascii - 1)]

\* SetContents without the break at the right edge
SetContents_NoClip(sz, x, y, text) ==
    {[col |-> x + RuneOffsets(text)[k], row |-> y] : k \in DOMAIN RuneOffsets(text)}

\* the loop of drawText (main.go:321-327): the cell of each rune, up to the
\* first rune with pos >= width
SetContents(sz, x, y, text) ==
    LET offs == RuneOffsets(text)
        stop == {k \in DOMAIN offs : x + offs[k] >= sz.w}
        last == IF stop = {} THEN Len(offs)
                ELSE (CHOOSE k \in stop : \A j \in stop : k <= j) - 1
    IN  {[col |-> x + offs[k], row |-> y] : k \in 1..last}

\* the cells set by the drawText calls of one drawScreen call, each at x = 0
drawnCells(sz, writes, text) ==
    UNION {SetContents(sz, 0, writes[i].row, text) : i \in DOMAIN writes}

\* the metric section, first row at line (main.go:231-297)
metricLines(sz, line) ==
       drawText(sz, line, "Time")
    \o drawText(sz, line + 1, "Requests")
    \o drawText(sz, line + 3, "Memory")
    \o drawText(sz, line + 4, "Connections")
    \o drawText(sz, line + 5, "Commands/s")
    \o drawText(sz, line + 6, "Bandwidth/s")
    \o drawText(sz, line + 7, "Items")
    \o drawText(sz, line + 8, "Slabs")

\* drawScreen with the placeholder written whenever no error is present
drawScreen_PlaceholderWithStats(sz, st, rt, e) ==
    IF sz.h <= 0 \/ sz.w <= 0 THEN <<>>
    ELSE LET line == IF e # NoErr THEN 4 ELSE 2
         IN     drawText(sz, 0, "mymemcache-top")
             \o (IF e # NoErr THEN drawText(sz, 2, "Error") ELSE <<>>)
             \o (IF st # NilSnap THEN metricLines(sz, line) ELSE <<>>)
             \o (IF e = NoErr
                 THEN drawText(sz, line, "Waiting for initial stats...")
                 ELSE <<>>)
             \o (IF sz.h > 2 THEN drawText(sz, sz.h - 1, "Controls") ELSE <<>>)

\* the drawText calls of one drawScreen call that reach the surface, in order
drawScreen(sz, st, rt, e) ==
    IF sz.h <= 0 \/ sz.w <= 0 THEN <<>>
    ELSE LET line == IF e # NoErr THEN 4 ELSE 2
         IN     drawText(sz, 0, "mymemcache-top")
             \o (IF e # NoErr THEN drawText(sz, 2, "Error") ELSE <<>>)
             \o (IF st # NilSnap THEN metricLines(sz, line)
                 ELSE IF e = NoErr
                      THEN drawText(sz, line, "Waiting for initial stats...")
                      ELSE <<>>)
             \o (IF sz.h > 2 THEN drawText(sz, sz.h - 1, "Controls") ELSE <<>>)

\* one drawScreen call as main makes it: the arguments and what was written
Render(sz, st, rt, e) ==
    [stats |-> st, rates |-> rt, err |-> e, lines |-> drawScreen(sz, st, rt, e)]

\* nothing has been drawn yet
Blank == [stats |-> NilSnap, rates |-> EmptyMap, err |-> NoErr, lines |-> <<>>]

\* the surface when drawScreen returns, for a surface with a positive width:
\* screen.Clear() blanks every row, each drawText call then sets the cells of
\* its row from column 0 on, so that the first cell of a row belongs to the
\* latest text written on the row ("" for a row left blank)
Display(sz, writes) ==
    [y \in 0..(sz.h - 1) |->
        LET on == {i \in DOMAIN writes : writes[i].row = y}
        IN  IF on = {} THEN ""
            ELSE writes[CHOOSE i \in on : \A j \in on : j <= i].text]

-----------------------------------------------------------------------------
(* Input events *)

\* capacity of eventCh
ChanCap == 8

KeyEvent(key, rune) == [type |-> "key", key |-> key, rune |-> rune]
ResizeEvent == [type |-> "resize", key |-> "", rune |-> ""]
MouseEvent == [type |-> "mouse", key |-> "", rune |-> ""]

\* the events PollEvent delivers in the model
Events ==
    { KeyEvent("Rune", "q"), KeyEvent("Rune", "Q"), KeyEvent("Escape", ""),
      KeyEvent("CtrlC", ""), KeyEvent("Rune", "r"), KeyEvent("Rune", "R"),
      KeyEvent("Rune", "x"), ResizeEvent, MouseEvent }

\* the events delivered after the first one: one for each way out of the
\* switch of main.go:120-133
LaterEvents ==
    { KeyEvent("Rune", "q"), KeyEvent("Rune", "r"), KeyEvent("Rune", "x"),
      ResizeEvent }

\* the surface sizes of the model
Sizes == {Size(80, 24)}

\* classify with every key but the quit keys a reset
classify_OtherKeysReset(ev) ==
    IF ev.type = "key"
    THEN IF ev.key = "Escape" \/ ev.key = "CtrlC" \/ ev.rune = "q" \/ ev.rune = "Q"
         THEN "quit"
         ELSE "reset"
    ELSE IF ev.type = "resize" THEN "resize" ELSE "ignore"

\* classify without the Ctrl+C case
classify_NoCtrlC(ev) ==
    IF ev.type = "key"
    THEN IF ev.key = "Escape" \/ ev.rune = "q" \/ ev.rune = "Q"
         THEN "quit"
         ELSE IF ev.rune = "r" \/ ev.rune = "R" THEN "reset" ELSE "ignore"
    ELSE IF ev.type = "resize" THEN "resize" ELSE "ignore"

\* the type switch and key switch of main.go:120-133
classify(ev) ==
    IF ev.type = "key"
    THEN IF ev.key = "Escape" \/ ev.key = "CtrlC" \/ ev.rune = "q" \/ ev.rune = "Q"
         THEN "quit"
         ELSE IF ev.rune = "r" \/ ev.rune = "R" THEN "reset" ELSE "ignore"
    ELSE IF ev.type = "resize" THEN "resize" ELSE "ignore"

-----------------------------------------------------------------------------
(* main: the loop *)

\* the four variables of main.go:89-94 as one value
RenderState(c, p, r, e) ==
    [currentStats |-> c, prevStats |-> p, rates |-> r, lastErr |-> e]

\* onSample with previous overwritten before the rates are computed
onSample_SelfBaseline(s, res) ==
    IF res.err # NoErr THEN [s EXCEPT !.lastErr = res.err]
    ELSE RenderState(res.stats, res.stats,
                     IF s.prevStats # NilSnap
                     THEN calculateRates(res.stats, res.stats)
                     ELSE EmptyMap,
                     NoErr)

\* onSample with the rates recomputed whatever fetchStats returned
onSample_RatesOnFailure(s, res) ==
    IF res.err # NoErr
    THEN [s EXCEPT !.lastErr = res.err,
                   !.rates = calculateRates(res.stats, s.prevStats)]
    ELSE RenderState(res.stats, res.stats,
                     IF s.prevStats # NilSnap
                     THEN calculateRates(res.stats, s.prevStats)
                     ELSE EmptyMap,
                     NoErr)

\* the timer case up to its drawScreen call (main.go:103-114), for the pair
\* res that fetchStats returned
onSample(s, res) ==
    IF res.err # NoErr THEN [s EXCEPT !.lastErr = res.err]
    ELSE RenderState(res.stats, res.stats,
                     IF s.prevStats # NilSnap
                     THEN calculateRates(res.stats, s.prevStats)
                     ELSE EmptyMap,
                     NoErr)

\* onReset that forgets the displayed Snapshot as well
onReset_DropsLatest(s) ==
    [s EXCEPT !.prevStats = NilSnap, !.rates = EmptyMap, !.currentStats = NilSnap]

\* onReset that leaves the Rate Table as it is
onReset_KeepsRates(s) == [s EXCEPT !.prevStats = NilSnap]

\* the reset case up to its drawScreen call (main.go:126-127)
onReset(s) == [s EXCEPT !.prevStats = NilSnap, !.rates = EmptyMap]

\* the responses the server gives the loop in the model
Line(key, value) == <<"STAT", " ", key, " ", value>>
LoopStreams ==
    { [lines |-> <<Line("cmd_get", "100"), Line("version", "1.6.9"), <<"END">>>>,
       end |-> "eof"],
      [lines |-> <<Line("cmd_get", "140"), Line("evictions", "4"), <<"END">>>>,
       end |-> "eof"],
      [lines |-> <<Line("cmd_get", "100")>>, end |-> "err"] }

\* which call of fetchStats before the scan loop fails, if any
Nets == {"ok", "dial"}

\* by how much the monotonic clock has advanced since its latest reading when
\* a Snapshot is built
ClockSteps == {0, 2}

Here == RenderState(currentStats, prevStats, rates, lastErr)

SetState(s) ==
    /\ currentStats' = s.currentStats
    /\ prevStats' = s.prevStats
    /\ rates' = s.rates
    /\ lastErr' = s.lastErr

\* InitialRender without its drawScreen call
InitialRender_Skipped ==
    /\ pc = "start"
    /\ pc' = "loop"
    /\ op' = "init"
    /\ draws' = 0
    /\ synced' = FALSE
    /\ UNCHANGED <<currentStats, prevStats, rates, lastErr, stats, err,
                   baseline, now, ticks, shown, ticker, screen, size>>
    /\ UNCHANGED <<taken, prodVars, fetchVars, rateVars, callVars>>

\* main.go:96
InitialRender ==
    /\ pc = "start"
    /\ pc' = "loop"
    /\ op' = "init"
    /\ draws' = 1
    /\ synced' = FALSE
    /\ shown' = Render(size, currentStats, rates, lastErr)
    /\ UNCHANGED <<currentStats, prevStats, rates, lastErr, stats, err,
                   baseline, now, ticks, ticker, screen, size>>
    /\ UNCHANGED <<taken, prodVars, fetchVars, rateVars, callVars>>

\* Tick with drawScreen called on the Render State the tick found
Tick_StaleRender ==
    /\ pc = "loop"
    /\ ticker = "running"
    /\ ticks < MaxTicks
    /\ \E net \in Nets, in \in LoopStreams, d \in ClockSteps :
          \E res \in {fetchStats(net, in, now + d)} :
             \E s \in {onSample(Here, res)} :
                /\ now' = IF res.err = NoErr THEN now + d ELSE now
                /\ stats' = res.stats
                /\ err' = res.err
                /\ SetState(s)
                /\ op' = IF res.err = NoErr THEN "tickOk" ELSE "tickFail"
                /\ baseline' = IF res.err = NoErr THEN prevStats ELSE baseline
                /\ shown' = Render(size, currentStats, rates, lastErr)
    /\ ticks' = ticks + 1
    /\ draws' = 1
    /\ synced' = FALSE
    /\ UNCHANGED <<pc, ticker, screen, size>>
    /\ UNCHANGED <<taken, prodVars, fetchVars, rateVars, callVars>>

\* case <-ticker.C (main.go:101-115)
Tick ==
    /\ pc = "loop"
    /\ ticker = "running"
    /\ ticks < MaxTicks
    /\ \E net \in Nets, in \in LoopStreams, d \in ClockSteps :
          \E res \in {fetchStats(net, in, now + d)} :
             \E s \in {onSample(Here, res)} :
                /\ now' = IF res.err = NoErr THEN now + d ELSE now
                /\ stats' = res.stats
                /\ err' = res.err
                /\ SetState(s)
                /\ op' = IF res.err = NoErr THEN "tickOk" ELSE "tickFail"
                /\ baseline' = IF res.err = NoErr THEN prevStats ELSE baseline
                /\ shown' = Render(size, s.currentStats, s.rates, s.lastErr)
    /\ ticks' = ticks + 1
    /\ draws' = 1
    /\ synced' = FALSE
    /\ UNCHANGED <<pc, ticker, screen, size>>
    /\ UNCHANGED <<taken, prodVars, fetchVars, rateVars, callVars>>

\* Receive that is taken only when no tick is ready: a select that gives the
\* timer case priority
Receive_TimerFirst ==
    /\ pc = "loop"
    /\ eventCh # <<>>
    /\ ticker # "running"
    /\ eventCh' = Tail(eventCh)
    /\ taken' = taken + 1
    /\ LET c == classify(Head(eventCh))
           s == IF c = "reset" THEN onReset(Here) ELSE Here
       IN  /\ op' = c
           /\ pc' = IF c = "quit" THEN "stopTicker" ELSE "loop"
           /\ SetState(s)
           /\ synced' = (c = "resize")
           /\ IF c \in {"reset", "resize"}
              THEN /\ draws' = 1
                   /\ shown' = Render(size, s.currentStats, s.rates, s.lastErr)
              ELSE draws' = 0 /\ UNCHANGED shown
    /\ UNCHANGED <<stats, err, baseline, now, ticks, ticker, screen, size>>
    /\ UNCHANGED <<chClosed, ppc, pev, polled, fetchVars, rateVars, callVars>>

\* case ev, ok := <-eventCh with ok true (main.go:116, 120-133)
Receive ==
    /\ pc = "loop"
    /\ eventCh # <<>>
    /\ eventCh' = Tail(eventCh)
    /\ taken' = taken + 1
    /\ LET c == classify(Head(eventCh))
           s == IF c = "reset" THEN onReset(Here) ELSE Here
       IN  /\ op' = c
           /\ pc' = IF c = "quit" THEN "stopTicker" ELSE "loop"
           /\ SetState(s)
           /\ synced' = (c = "resize")
           /\ IF c \in {"reset", "resize"}
              THEN /\ draws' = 1
                   /\ shown' = Render(size, s.currentStats, s.rates, s.lastErr)
              ELSE draws' = 0 /\ UNCHANGED shown
    /\ UNCHANGED <<stats, err, baseline, now, ticks, ticker, screen, size>>
    /\ UNCHANGED <<chClosed, ppc, pev, polled, fetchVars, rateVars, callVars>>

\* ReceiveClosed with the closure seen ahead of the events still queued
ReceiveClosed_Eager ==
    /\ pc = "loop"
    /\ chClosed
    /\ pc' = "stopTicker"
    /\ op' = "closed"
    /\ draws' = 0
    /\ synced' = FALSE
    /\ UNCHANGED <<currentStats, prevStats, rates, lastErr, stats, err,
                   baseline, now, ticks, shown, ticker, screen, size>>
    /\ UNCHANGED <<taken, prodVars, fetchVars, rateVars, callVars>>

\* case ev, ok := <-eventCh with ok false (main.go:117-119)
ReceiveClosed ==
    /\ pc = "loop"
    /\ eventCh = <<>>
    /\ chClosed
    /\ pc' = "stopTicker"
    /\ op' = "closed"
    /\ draws' = 0
    /\ synced' = FALSE
    /\ UNCHANGED <<currentStats, prevStats, rates, lastErr, stats, err,
                   baseline, now, ticks, shown, ticker, screen, size>>
    /\ UNCHANGED <<taken, prodVars, fetchVars, rateVars, callVars>>

\* the deferred ticker.Stop() (main.go:87)
StopTicker ==
    /\ pc = "stopTicker"
    /\ ticker' = "stopped"
    /\ pc' = "fini"
    /\ draws' = 0
    /\ synced' = FALSE
    /\ UNCHANGED <<currentStats, prevStats, rates, lastErr, stats, err, op,
                   baseline, now, ticks, shown, screen, size>>
    /\ UNCHANGED <<taken, prodVars, fetchVars, rateVars, callVars>>

\* the deferred screen.Fini() (main.go:69), after which main returns
Fini ==
    /\ pc = "fini"
    /\ screen' = "finalized"
    /\ pc' = "returned"
    /\ draws' = 0
    /\ synced' = FALSE
    /\ UNCHANGED <<currentStats, prevStats, rates, lastErr, stats, err, op,
                   baseline, now, ticks, shown, ticker, size>>
    /\ UNCHANGED <<taken, prodVars, fetchVars, rateVars, callVars>>

-----------------------------------------------------------------------------
(* The input producer goroutine *)

\* the goroutine holds no event
NoEvent == [type |-> "none", key |-> "", rune |-> "", n |-> 0]

\* the event object PollEvent returns for input ev, the n-th of the run
Nth(ev, n) == [type |-> ev.type, key |-> ev.key, rune |-> ev.rune, n |-> n]

\* the input of an event object
Kind(e) == [type |-> e.type, key |-> e.key, rune |-> e.rune]

\* the events delivered in a burst of input: a reset or a quit first, then
\* keys without a meaning
BurstEvents(k) ==
    IF k = 0 THEN {KeyEvent("Rune", "r"), KeyEvent("Rune", "q")}
    ELSE {KeyEvent("Rune", "x")}

\* screen.PollEvent() returns an event for one of the inputs evs
\* (main.go:77); a resize event is delivered after the surface took its new
\* size
Deliver(evs) ==
    /\ pc # "returned"
    /\ ppc = "poll"
    /\ \E ev \in evs :
          /\ pev' = Nth(ev, polled + 1)
          /\ IF ev.type = "resize" THEN size' \in Sizes ELSE size' = size
    /\ ppc' = "send"
    /\ polled' = polled + 1
    /\ UNCHANGED <<pc, currentStats, prevStats, rates, lastErr, stats, err, op,
                   baseline, now, ticks, draws, shown, ticker, screen, taken,
                   synced>>
    /\ UNCHANGED <<eventCh, chClosed, fetchVars, rateVars, callVars>>

\* screen.PollEvent() returns an event (main.go:77)
Poll ==
    /\ polled < MaxEvents
    /\ Deliver(IF polled = 0 THEN Events ELSE LaterEvents)

\* screen.PollEvent() returns an event of a burst of input (main.go:77)
PollBurst ==
    /\ polled < MaxQueued
    /\ Deliver(BurstEvents(polled))

\* PollNil with the goroutine recording the end of input in lastErr
PollNil_SetsError ==
    /\ pc # "returned"
    /\ ppc = "poll"
    /\ chClosed' = TRUE
    /\ ppc' = "exited"
    /\ lastErr' = "input closed"
    /\ UNCHANGED <<pc, currentStats, prevStats, rates, stats, err, op, baseline,
                   now, ticks, draws, shown, ticker, screen, size, taken,
                   synced>>
    /\ UNCHANGED <<eventCh, pev, polled, fetchVars, rateVars, callVars>>

\* screen.PollEvent() returns nil: close(eventCh) and return (main.go:78-81)
PollNil ==
    /\ pc # "returned"
    /\ ppc = "poll"
    /\ chClosed' = TRUE
    /\ ppc' = "exited"
    /\ UNCHANGED <<loopVars, eventCh, pev, polled, fetchVars, rateVars, callVars>>

\* Send that gives the event up when the buffer is full
Send_Lossy ==
    /\ pc # "returned"
    /\ ppc = "send"
    /\ eventCh' = IF Len(eventCh) < ChanCap THEN Append(eventCh, pev) ELSE eventCh
    /\ ppc' = "poll"
    /\ pev' = NoEvent
    /\ UNCHANGED <<loopVars, chClosed, polled, fetchVars, rateVars, callVars>>

\* eventCh <- event (main.go:82): waits while the buffer is full
Send ==
    /\ pc # "returned"
    /\ ppc = "send"
    /\ Len(eventCh) < ChanCap
    /\ eventCh' = Append(eventCh, pev)
    /\ ppc' = "poll"
    /\ pev' = NoEvent
    /\ UNCHANGED <<loopVars, chClosed, polled, fetchVars, rateVars, callVars>>

-----------------------------------------------------------------------------
(* The program *)

InitLoop ==
    /\ pc = "start"
    /\ currentStats = NilSnap
    /\ prevStats = NilSnap
    /\ rates = EmptyMap
    /\ lastErr = NoErr
    /\ stats = NilSnap
    /\ err = NoErr
    /\ op = "none"
    /\ baseline = NilSnap
    /\ now = 0
    /\ ticks = 0
    /\ draws = 0
    /\ shown = Blank
    /\ ticker = "running"
    /\ screen = "active"
    /\ size = Size(80, 24)
    /\ taken = 0
    /\ synced = FALSE
    /\ eventCh = <<>>
    /\ chClosed = FALSE
    /\ ppc = "poll"
    /\ pev = NoEvent
    /\ polled = 0

InitFetchIdle ==
    /\ fpc = "idle"
    /\ fNet = "ok"
    /\ fIn = [lines |-> <<>>, end |-> "eof"]
    /\ fSeen = <<>>
    /\ fValues = EmptyMap
    /\ fRaw = EmptyMap
    /\ fConn = "none"
    /\ fRes = [stats |-> NilSnap, err |-> NoErr]
    /\ fOpen = 0
    /\ fCalls = 0

InitRatesIdle ==
    /\ rpc = "idle"
    /\ rCurr = NilSnap
    /\ rPrev = NilSnap
    /\ rOut = EmptyMap

InitDrawIdle ==
    /\ dpc = "idle"
    /\ dSize = Size(80, 24)
    /\ dStats = NilSnap
    /\ dRates = EmptyMap
    /\ dErr = NoErr
    /\ dOut = <<>>
    /\ dText = TextShape(27, 0)
    /\ dCells = {}

InitFmtIdle ==
    /\ fmtpc = "idle"
    /\ fmtFn = "formatUptime"
    /\ fmtIn = Zero
    /\ fmtOut = ""

\* conn has no deadline until SetDeadline is called
NoDeadline == -1

InitClockIdle ==
    /\ tpc = "idle"
    /\ tNow = 0
    /\ tDeadline = NoDeadline
    /\ tLeft = 0
    /\ tEnd = "END"
    /\ tErr = NoErr

InitCallsIdle == InitDrawIdle /\ InitFmtIdle /\ InitClockIdle

Init == InitLoop /\ InitFetchIdle /\ InitRatesIdle /\ InitCallsIdle

Next ==
    \/ InitialRender
    \/ Tick
    \/ Receive
    \/ ReceiveClosed
    \/ StopTicker
    \/ Fini
    \/ Poll
    \/ PollNil
    \/ Send

Spec == Init /\ [][Next]_vars

\* the program under a burst of input
NextBurst ==
    \/ InitialRender
    \/ Tick
    \/ Receive
    \/ ReceiveClosed
    \/ StopTicker
    \/ Fini
    \/ PollBurst
    \/ PollNil
    \/ Send

SpecBurst == Init /\ [][NextBurst]_vars

-----------------------------------------------------------------------------
(* One fetchStats call, statement by statement *)

\* the response lines of the model
FetchLines ==
    { Line("cmd_get", "42"),
      Line("cmd_get", "abc"),
      Line("version", "1.6.9"),
      <<"STAT", " ", "version", " ", "1.6", "  ", "beta">>,
      Line("evictions", "NaN"),
      <<"STAT", " ", "cmd_get">>,
      <<"stat", " ", "cmd_get", " ", "6">>,
      <<"END">>,
      <<" ", "END">>,
      <<>> }

RECURSIVE SeqsUpTo(_, _)
SeqsUpTo(S, n) ==
    IF n = 0 THEN {<<>>}
    ELSE LET shorter == SeqsUpTo(S, n - 1)
         IN  shorter \cup {Append(q, x) : q \in shorter, x \in S}

\* the responses of the model: the lines delivered and what follows them,
\* the end of the stream ("eof") or a failed read ("err")
Streams == {[lines |-> l, end |-> e] : l \in SeqsUpTo(FetchLines, MaxLines),
                                       e \in {"eof", "err"}}

\* FetchReturn without the deferred conn.Close()
FetchReturn_NoClose(res) ==
    /\ fRes' = res
    /\ fpc' = "returned"
    /\ UNCHANGED <<fConn, fOpen>>

\* fetchStats returns res; the deferred conn.Close() runs when conn is open
FetchReturn(res) ==
    /\ fRes' = res
    /\ fpc' = "returned"
    /\ fConn' = IF fConn = "open" THEN "closed" ELSE fConn
    /\ fOpen' = IF fConn = "open" THEN fOpen - 1 ELSE fOpen

\* net.DialTimeout (main.go:141-145)
FDial ==
    /\ fpc = "dial"
    /\ \E fails \in BOOLEAN :
          IF fails
          THEN /\ FetchReturn([stats |-> NilSnap, err |-> ErrDial])
               /\ fNet' = "dial"
          ELSE /\ fConn' = "open"
               /\ fOpen' = fOpen + 1
               /\ fpc' = "deadline"
               /\ UNCHANGED <<fRes, fNet>>
    /\ UNCHANGED <<fIn, fSeen, fValues, fRaw, fCalls>>
    /\ UNCHANGED <<loopVars, prodVars, rateVars, callVars>>

\* conn.SetDeadline (main.go:147-149)
FSetDeadline ==
    /\ fpc = "deadline"
    /\ \E fails \in BOOLEAN :
          IF fails
          THEN /\ FetchReturn([stats |-> NilSnap, err |-> ErrDeadline])
               /\ fNet' = "deadline"
          ELSE /\ fpc' = "write"
               /\ UNCHANGED <<fRes, fConn, fOpen, fNet>>
    /\ UNCHANGED <<fIn, fSeen, fValues, fRaw, fCalls>>
    /\ UNCHANGED <<loopVars, prodVars, rateVars, callVars>>

\* fmt.Fprint(conn, "stats\r\n") and the set-up of the scan loop
\* (main.go:151-157)
FWrite ==
    /\ fpc = "write"
    /\ \E fails \in BOOLEAN :
          IF fails
          THEN /\ FetchReturn([stats |-> NilSnap, err |-> ErrWrite])
               /\ fNet' = "write"
               /\ UNCHANGED <<fValues, fRaw>>
          ELSE /\ fpc' = "scan"
               /\ fValues' = EmptyMap
               /\ fRaw' = EmptyMap
               /\ UNCHANGED <<fRes, fConn, fOpen, fNet>>
    /\ UNCHANGED <<fIn, fSeen, fCalls>>
    /\ UNCHANGED <<loopVars, prodVars, rateVars, callVars>>

\* scanner.Scan() returns true: one iteration of the loop (main.go:159-174);
\* on the terminator the loop is left and the Snapshot returned
\* (main.go:175-183)
FScan ==
    /\ fpc = "scan"
    /\ fIn.lines # <<>>
    /\ fIn' = [fIn EXCEPT !.lines = Tail(@)]
    /\ fSeen' = Append(fSeen, Head(fIn.lines))
    /\ IF IsEnd(Head(fIn.lines))
       THEN /\ FetchReturn(afterScan([raw |-> fRaw, values |-> fValues], "END", now))
            /\ UNCHANGED <<fValues, fRaw>>
       ELSE \E acc \in {scanLine([raw |-> fRaw, values |-> fValues], Head(fIn.lines))} :
               /\ fValues' = acc.values
               /\ fRaw' = acc.raw
               /\ UNCHANGED <<fpc, fRes, fConn, fOpen>>
    /\ UNCHANGED <<fNet, fCalls>>
    /\ UNCHANGED <<loopVars, prodVars, rateVars, callVars>>

\* scanner.Scan() returns false: the stream ended or a read failed
\* (main.go:159, 175-183)
FScanStop ==
    /\ fpc = "scan"
    /\ fIn.lines = <<>>
    /\ FetchReturn(afterScan([raw |-> fRaw, values |-> fValues], fIn.end, now))
    /\ UNCHANGED <<fNet, fIn, fSeen, fValues, fRaw, fCalls>>
    /\ UNCHANGED <<loopVars, prodVars, rateVars, callVars>>

InitFetch ==
    /\ InitLoop
    /\ InitRatesIdle
    /\ InitCallsIdle
    /\ fpc = "dial"
    /\ fNet = "ok"
    /\ fIn \in Streams
    /\ fSeen = <<>>
    /\ fValues = EmptyMap
    /\ fRaw = EmptyMap
    /\ fConn = "none"
    /\ fRes = [stats |-> NilSnap, err |-> NoErr]
    /\ fOpen = 0
    /\ fCalls = 1

NextFetch ==
    \/ FDial
    \/ FSetDeadline
    \/ FWrite
    \/ FScan
    \/ FScanStop

SpecFetch == InitFetch /\ [][NextFetch]_vars

-----------------------------------------------------------------------------
(* fetchStats called again and again, as the ticks of the loop do *)

\* the responses to the calls after the first: read to the terminator, ended
\* without it, ended empty, and broken off by a failed read
CallStreams == LoopStreams \cup {[lines |-> l, end |-> "eof"] : l \in {<<>>, <<Line("cmd_get", "42")>>}}

\* the next call of fetchStats begins (main.go:102): its variables are fresh
FCall ==
    /\ fpc = "returned"
    /\ fCalls < MaxCalls
    /\ fCalls' = fCalls + 1
    /\ fpc' = "dial"
    /\ fNet' = "ok"
    /\ fIn' \in CallStreams
    /\ fSeen' = <<>>
    /\ fValues' = EmptyMap
    /\ fRaw' = EmptyMap
    /\ fConn' = "none"
    /\ fRes' = [stats |-> NilSnap, err |-> NoErr]
    /\ UNCHANGED fOpen
    /\ UNCHANGED <<loopVars, prodVars, rateVars, callVars>>

NextCalls ==
    \/ FDial
    \/ FSetDeadline
    \/ FWrite
    \/ FScan
    \/ FScanStop
    \/ FCall

SpecCalls == InitFetch /\ [][NextCalls]_vars

-----------------------------------------------------------------------------
(* One calculateRates call *)

\* the metric keys and values of the Snapshots handed to calculateRates
RateKeys == {"cmd_get", "evictions"}
RateVals == {Fin(4, 1), Fin(6, 1), NaN, PInf, NInf}
RateRaws == {EmptyMap, [version |-> "1.6.9", evictions |-> "n/a"]}

ValueMaps == UNION {[S -> RateVals] : S \in SUBSET RateKeys}

RateSnaps ==
    {Snapshot(t, v, r) : t \in 0..MaxTime, v \in ValueMaps, r \in RateRaws}

CallRates ==
    /\ rpc = "call"
    /\ rOut' = calculateRates(rCurr, rPrev)
    /\ rpc' = "returned"
    /\ UNCHANGED <<rCurr, rPrev>>
    /\ UNCHANGED <<loopVars, prodVars, fetchVars, callVars>>

InitRates ==
    /\ InitLoop
    /\ InitFetchIdle
    /\ InitCallsIdle
    /\ rpc = "call"
    /\ rCurr \in RateSnaps \cup {NilSnap}
    /\ rPrev \in RateSnaps \cup {NilSnap}
    /\ rOut = EmptyMap

NextRates == CallRates

SpecRates == InitRates /\ [][NextRates]_vars

-----------------------------------------------------------------------------
(* One drawScreen call *)

\* the surface sizes, Snapshots, Rate Tables and errors handed to drawScreen
DrawSizes == {Size(w, h) : w \in {0, 1, 80}, h \in 0..MaxRows}
DrawSnaps ==
    { Snapshot(0, [uptime |-> Fin(3661, 1), bytes |-> Fin(2048, 1),
                   limit_maxbytes |-> Fin(8192, 1)],
               [version |-> "1.6.0"]) }
DrawRates == {EmptyMap, [cmd_get |-> Fin(9, 2), bytes_read |-> Fin(1024, 1)]}
DrawErrs == {NoErr, ErrDial, ErrRead}

\* the texts drawn: the length of the placeholder line, a text that ends at
\* the right edge of 80 columns and one that passes it, each with and without
\* runes of more than one byte at its end
DrawTexts == {TextShape(a, k) : a \in {27, 79, 81}, k \in {0, 2}}

CallDraw ==
    /\ dpc = "call"
    /\ dOut' = drawScreen(dSize, dStats, dRates, dErr)
    /\ dCells' = drawnCells(dSize, dOut', dText)
    /\ dpc' = "returned"
    /\ UNCHANGED <<dSize, dStats, dRates, dErr, dText>>
    /\ UNCHANGED <<loopVars, prodVars, fetchVars, rateVars, fmtVars, clockVars>>

InitDraw ==
    /\ InitLoop
    /\ InitFetchIdle
    /\ InitRatesIdle
    /\ InitFmtIdle
    /\ InitClockIdle
    /\ dpc = "call"
    /\ dSize \in DrawSizes
    /\ dStats \in DrawSnaps \cup {NilSnap}
    /\ dRates \in DrawRates
    /\ dErr \in DrawErrs
    /\ dOut = <<>>
    /\ dText \in DrawTexts
    /\ dCells = {}

NextDraw == CallDraw

SpecDraw == InitDraw /\ [][NextDraw]_vars

-----------------------------------------------------------------------------
(* formatUptime *)

\* the float64 argument of formatUptime: the value 60 * min + sec + nsec / 10^9
\* seconds, negated when neg (a whole number of seconds has nsec = 0)
Secs(neg, min, sec, nsec) == [neg |-> neg, min |-> min, sec |-> sec, nsec |-> nsec]

\* a time.Duration, an int64 count of nanoseconds: the value
\* 60 * 10^9 * min + 10^9 * sec + nsec, negated when neg
Dur(neg, min, sec, nsec) == [neg |-> neg, min |-> min, sec |-> sec, nsec |-> nsec]

\* math.MaxInt64 and math.MinInt64 nanoseconds
MaxDuration == Dur(FALSE, 153722867, 16, 854775807)
MinDuration == Dur(TRUE, 153722867, 16, 854775808)

\* seconds <= 0 (main.go:366)
SecsLeZero(seconds) ==
    seconds.neg \/ (seconds.min = 0 /\ seconds.sec = 0 /\ seconds.nsec = 0)

\* seconds * 10^9 is below 2^63, for seconds > 0
FitsDuration(seconds) ==
    \/ seconds.min < MaxDuration.min
    \/ /\ seconds.min = MaxDuration.min
       /\ \/ seconds.sec < MaxDuration.sec
          \/ seconds.sec = MaxDuration.sec /\ seconds.nsec <= MaxDuration.nsec

\* time.Duration(seconds * float64(time.Second)) for seconds > 0
\* (main.go:369): the product truncated to int64; for a product out of the
\* int64 range the result depends on the implementation: math.MinInt64 on
\* amd64, math.MaxInt64 on arm64
ToDuration(seconds) ==
    IF FitsDuration(seconds)
    THEN {Dur(FALSE, seconds.min, seconds.sec, seconds.nsec)}
    ELSE {MinDuration, MaxDuration}

DurSign(d) == IF d.neg THEN -1 ELSE 1

\* d / unit on int64 (truncated toward zero), for a unit of unitMin minutes
DurQuo(d, unitMin) == DurSign(d) * (d.min \div unitMin)

\* d - (d / unit) * unit
DurRem(d, unitMin) == [d EXCEPT !.min = d.min % unitMin]

\* int(math.Round(d.Seconds())) for a d within a minute of zero: halves are
\* rounded away from zero (main.go:376)
RoundSeconds(d) ==
    DurSign(d) * (d.sec + IF d.nsec >= 500000000 THEN 1 ELSE 0)

\* the verb %02d
Pad2(n) == IF n >= 0 /\ n < 10 THEN "0" \o ToString(n) ELSE ToString(n)

\* main.go:370-381 for the duration of main.go:369
uptimeText(duration) ==
    LET days == DurQuo(duration, 1440)
        d1 == DurRem(duration, 1440)
        hours == DurQuo(d1, 60)
        d2 == DurRem(d1, 60)
        minutes == DurQuo(d2, 1)
        d3 == DurRem(d2, 1)
        secs == RoundSeconds(d3)
        hms == Pad2(hours) \o "h " \o Pad2(minutes) \o "m " \o Pad2(secs) \o "s"
    IN  IF days > 0 THEN ToString(days) \o "d " \o hms ELSE hms

\* the strings formatUptime can return
formatUptime(seconds) ==
    IF SecsLeZero(seconds) THEN {"0s"}
    ELSE {uptimeText(d) : d \in ToDuration(seconds)}

-----------------------------------------------------------------------------
(* formatBytes *)

\* the float64 argument of formatBytes: the value (num / den) * 1024^exp,
\* negated when neg, with num / den < 1024, and num / den >= 1 when exp > 0
Bytes(neg, num, den, exp) == [neg |-> neg, num |-> num, den |-> den, exp |-> exp]

\* b < 0 (main.go:342)
BytesLtZero(b) == b.neg /\ b.num > 0

\* ClampBytes without the clamp
ClampBytes_None(b) == b

\* main.go:342-344
ClampBytes(b) == IF BytesLtZero(b) THEN Bytes(FALSE, 0, 1, 0) ELSE b

\* b >= 1024 (main.go:347)
BytesGe1024(b) == ~b.neg /\ (b.exp >= 1 \/ b.num >= 1024 * b.den)

\* b / 1024 (main.go:348): exact, a division by a power of two
BytesDiv1024(b) ==
    IF b.exp >= 1 THEN [b EXCEPT !.exp = @ - 1] ELSE [b EXCEPT !.den = @ * 1024]

units == <<"B", "KB", "MB", "GB", "TB", "PB">>

\* the loop of main.go:347-350, from its state (b, idx)
RECURSIVE scaleBytes(_, _)
scaleBytes(b, idx) ==
    IF BytesGe1024(b) /\ idx < Len(units) - 1
    THEN scaleBytes(BytesDiv1024(b), idx + 1)
    ELSE [b |-> b, idx |-> idx]

RECURSIVE Pow(_, _)
Pow(x, n) == IF n = 0 THEN 1 ELSE x * Pow(x, n - 1)

\* the verbs %.0f (decimals = 0) and %.1f (decimals = 1): the value rounded
\* to that many decimals, a tie going to the even last digit
Fixed(b, decimals) ==
    LET n == b.num * Pow(1024, b.exp) * Pow(10, decimals)
        q == n \div b.den
        r == n % b.den
        up == 2 * r > b.den \/ (2 * r = b.den /\ q % 2 = 1)
        m == IF up THEN q + 1 ELSE q
        sign == IF b.neg THEN "-" ELSE ""
    IN  IF decimals = 0 THEN sign \o ToString(m)
        ELSE sign \o ToString(m \div 10) \o "." \o ToString(m % 10)

\* main.go:341-355
formatBytes(b) ==
    LET s == scaleBytes(ClampBytes(b), 0)
    IN  IF s.idx = 0
        THEN Fixed(s.b, 0) \o " " \o units[s.idx + 1]
        ELSE Fixed(s.b, 1) \o " " \o units[s.idx + 1]

-----------------------------------------------------------------------------
(* One call of a formatter *)

\* the arguments of formatUptime in the model: whole numbers of seconds up to
\* and beyond the int64 range of nanoseconds, and some that are not whole
UptimeInputs ==
    {Secs(neg, m, sec, 0) :
        neg \in BOOLEAN,
        m \in {0, 1, 59, 60, 61, 1439, 1440, 1501, 71582788, 153722867,
               153722868, 166666666},
        sec \in {0, 1, 15, 16, 17, 40, 59}}
    \cup {Secs(FALSE, m, sec, 500000000) : m \in {0, 1, 1440}, sec \in {0, 59}}

\* the arguments of formatBytes in the model
BytesInputs ==
    {Bytes(neg, f[1], f[2], exp) :
        neg \in BOOLEAN,
        f \in {<<0, 1>>, <<1, 2>>, <<1, 1>>, <<3, 2>>, <<5, 4>>, <<5, 2>>,
               <<10, 1>>, <<512, 1>>, <<1023, 1>>, <<2047, 2>>, <<1048575, 1024>>},
        exp \in {0}}
    \cup {Bytes(FALSE, f[1], f[2], exp) :
        f \in {<<1, 1>>, <<3, 2>>, <<5, 4>>, <<512, 1>>, <<1023, 1>>, <<2047, 2>>},
        exp \in 1..6}

CallFormatUptime ==
    /\ fmtpc = "call"
    /\ fmtFn = "formatUptime"
    /\ fmtOut' \in formatUptime(fmtIn)
    /\ fmtpc' = "returned"
    /\ UNCHANGED <<fmtFn, fmtIn>>
    /\ UNCHANGED <<loopVars, prodVars, fetchVars, rateVars, drawVars, clockVars>>

CallFormatBytes ==
    /\ fmtpc = "call"
    /\ fmtFn = "formatBytes"
    /\ fmtOut' = formatBytes(fmtIn)
    /\ fmtpc' = "returned"
    /\ UNCHANGED <<fmtFn, fmtIn>>
    /\ UNCHANGED <<loopVars, prodVars, fetchVars, rateVars, drawVars, clockVars>>

InitFormat ==
    /\ InitLoop
    /\ InitFetchIdle
    /\ InitRatesIdle
    /\ InitDrawIdle
    /\ InitClockIdle
    /\ fmtpc = "call"
    /\ \/ fmtFn = "formatUptime" /\ fmtIn \in UptimeInputs
       \/ fmtFn = "formatBytes" /\ fmtIn \in BytesInputs
    /\ fmtOut = ""

NextFormat ==
    \/ CallFormatUptime
    \/ CallFormatBytes

SpecFormat == InitFormat /\ [][NextFormat]_vars

-----------------------------------------------------------------------------
(* Properties of the loop *)

\* a step in which the loop called fetchStats and got a Snapshot
TickSucceeded == ticks' = ticks + 1 /\ err' = NoErr

\* a step in which the loop called fetchStats and got an error
TickFailed == ticks' = ticks + 1 /\ err' # NoErr

\* a step in which the loop took event ev from eventCh
Received(ev) ==
    /\ eventCh # <<>>
    /\ Kind(Head(eventCh)) = ev
    /\ Len(eventCh') = Len(eventCh) - 1

ResetInputs == {KeyEvent("Rune", "r"), KeyEvent("Rune", "R")}

QuitInputs ==
    { KeyEvent("Rune", "q"), KeyEvent("Rune", "Q"), KeyEvent("Escape", ""),
      KeyEvent("CtrlC", "") }

\* the latest drawScreen call was made with the current Render State
ShowsState ==
    /\ shown.stats = currentStats
    /\ shown.rates = rates
    /\ shown.err = lastErr

\* the latest drawScreen call wrote the placeholder line
PlaceholderShown ==
    \E i \in DOMAIN shown.lines : shown.lines[i].text = "Waiting for initial stats..."

\* C1: when a tick's sample succeeds, the stored error becomes absent, the Rate
\* Table becomes calculateRates(new Snapshot, previous Snapshot) if a previous
\* Snapshot existed just before the tick and the empty table otherwise,
\* previous and latest both become the new Snapshot, and the tick's one render
\* is made with that state.
C1_SuccessfulTick ==
    [][TickSucceeded =>
          /\ stats' # NilSnap
          /\ lastErr' = NoErr
          /\ rates' = IF prevStats # NilSnap
                      THEN calculateRates(stats', prevStats)
                      ELSE EmptyMap
          /\ prevStats' = stats'
          /\ currentStats' = stats'
          /\ draws' = 1
          /\ ShowsState']_vars

\* a successful tick that found a previous Snapshot and computed rates from it
C1_Witness ==
    /\ op = "tickOk"
    /\ baseline # NilSnap
    /\ rates # EmptyMap
    /\ prevStats = currentStats
    /\ lastErr = NoErr

\* C2: when a tick's sample fails, the stored error becomes that tick's error
\* and latest Snapshot, previous Snapshot and Rate Table stay as they were.
C2_FailedTick ==
    [][TickFailed =>
          /\ lastErr' = err'
          /\ currentStats' = currentStats
          /\ prevStats' = prevStats
          /\ rates' = rates]_vars

\* a failed tick after data and rates were on display
C2_Witness ==
    /\ op = "tickFail"
    /\ lastErr # NoErr
    /\ currentStats # NilSnap
    /\ prevStats # NilSnap
    /\ rates # EmptyMap

\* C3: a reset input makes previous Snapshot absent and the Rate Table empty
\* and leaves latest Snapshot and the stored error as they were; previous
\* Snapshot then stays absent until the next successful tick, whatever else
\* the loop processes, and that tick produces an empty Rate Table.
C3_Reset ==
    [][/\ (\E ev \in ResetInputs : Received(ev)) =>
             /\ prevStats' = NilSnap
             /\ rates' = EmptyMap
             /\ currentStats' = currentStats
             /\ lastErr' = lastErr
       /\ (prevStats = NilSnap /\ ~TickSucceeded) =>
             /\ prevStats' = NilSnap
             /\ rates' = EmptyMap
       /\ (prevStats = NilSnap /\ TickSucceeded) =>
             /\ rates' = EmptyMap
             /\ baseline' = NilSnap]_vars

\* a reset processed while a Snapshot and an error were on display
C3_Witness ==
    /\ op = "reset"
    /\ currentStats # NilSnap
    /\ lastErr # NoErr
    /\ prevStats = NilSnap
    /\ rates = EmptyMap
    /\ ShowsState

\* C4: once a quit input is processed the loop is left for good: no later
\* step calls fetchStats or drawScreen, and when main has returned the ticker
\* is stopped and the screen, with its input stream, is finalized.
C4_Quit ==
    [][/\ (\E ev \in QuitInputs : Received(ev)) =>
             /\ pc = "loop"
             /\ pc' = "stopTicker"
             /\ ticks' = ticks
             /\ draws' = 0
       /\ pc \notin {"start", "loop"} =>
             /\ pc' \notin {"start", "loop"}
             /\ ticks' = ticks
             /\ draws' = 0
             /\ shown' = shown
       /\ pc' = "returned" =>
             /\ ticker' = "stopped"
             /\ screen' = "finalized"]_vars

\* main has returned after a quit, with a tick still to come and an event
\* still queued
C4_Witness ==
    /\ pc = "returned"
    /\ op = "quit"
    /\ ticks = 1
    /\ eventCh # <<>>
    /\ ticker = "stopped"
    /\ screen = "finalized"

\* C5: once latest Snapshot is present it stays present and the placeholder is
\* not on display; a stored error is present exactly when the most recent tick
\* failed, and only a successful tick clears it.
C5_NeverBlank ==
    [][/\ currentStats # NilSnap => currentStats' # NilSnap
       /\ currentStats' # NilSnap => ~PlaceholderShown'
       /\ lastErr' # NoErr <=> err' # NoErr
       /\ (lastErr # NoErr /\ lastErr' = NoErr) => TickSucceeded]_vars

\* a resize processed while a stale Snapshot and the error of a failed tick
\* were on display
C5_Witness ==
    /\ op = "resize"
    /\ currentStats # NilSnap
    /\ lastErr # NoErr
    /\ err = lastErr
    /\ ShowsState
    /\ ~PlaceholderShown

\* C7: calculateRates returns the empty table when either Snapshot is absent
\* or the elapsed time is zero or negative, so a non-empty table comes from a
\* strictly positive interval only; a successful tick over such an interval
\* leaves the Rate Table empty and the stored error absent.
C7_PositiveInterval ==
    [][/\ \A c, p \in {NilSnap, stats', currentStats, prevStats, baseline} :
             /\ (c = NilSnap \/ p = NilSnap) => calculateRates(c, p) = EmptyMap
             /\ (c # NilSnap /\ p # NilSnap /\ c.Timestamp - p.Timestamp <= 0)
                   => calculateRates(c, p) = EmptyMap
             /\ calculateRates(c, p) # EmptyMap
                   => c # NilSnap /\ p # NilSnap /\ c.Timestamp - p.Timestamp > 0
       /\ (TickSucceeded /\ prevStats # NilSnap
             /\ stats'.Timestamp - prevStats.Timestamp <= 0)
             => rates' = EmptyMap /\ lastErr' = NoErr]_vars

\* a successful tick whose Snapshot carries the timestamp of the previous one,
\* both with the same numeric keys
C7_Witness ==
    /\ op = "tickOk"
    /\ baseline # NilSnap
    /\ baseline.Timestamp = currentStats.Timestamp
    /\ DOMAIN baseline.Values = DOMAIN currentStats.Values
    /\ rates = EmptyMap
    /\ lastErr = NoErr

-----------------------------------------------------------------------------
(* Properties of calculateRates *)

\* a >= b on float64 (false when either is NaN)
FGe(a, b) == a.cls # "nan" /\ b.cls # "nan" /\ ~FLt(a, b)

\* C6: for two present Snapshots with a positive elapsed time the returned
\* table has exactly the keys of both numeric maps, and for each of them the
\* value (current - previous) / elapsed when current >= previous, 0 when
\* current < previous, and never a negative value.
C6_Rates ==
    (rpc = "returned" /\ rCurr # NilSnap /\ rPrev # NilSnap
        /\ rCurr.Timestamp > rPrev.Timestamp) =>
       /\ DOMAIN rOut = (DOMAIN rCurr.Values) \cap (DOMAIN rPrev.Values)
       /\ \A k \in DOMAIN rOut :
             LET c == rCurr.Values[k]
                 p == rPrev.Values[k]
                 e == Fin(rCurr.Timestamp - rPrev.Timestamp, 1)
             IN  /\ FGe(c, p) => rOut[k] = FDiv(FSub(c, p), e)
                 /\ FLt(c, p) => rOut[k] = Zero
                 /\ ~FLt(rOut[k], Zero)

\* over two seconds cmd_get rose from 4 to 6 and evictions fell from 6 to 4,
\* and version is a key of raw only
C6_Witness ==
    /\ rpc = "returned"
    /\ rCurr # NilSnap
    /\ rPrev # NilSnap
    /\ "version" \in DOMAIN rCurr.Raw
    /\ rCurr.Timestamp - rPrev.Timestamp = 2
    /\ rOut = [cmd_get |-> Fin(1, 1), evictions |-> Zero]

-----------------------------------------------------------------------------
(* Properties of fetchStats *)

\* the response of this call: the lines scanned and the lines left
Response == fSeen \o fIn.lines

\* the lines of the response before its first terminator line
BeforeEnd ==
    {i \in 1..Len(Response) : \A j \in 1..i : Response[j] # <<"END">>}

\* the lines that count: before the terminator, at least three tokens, the
\* first of them STAT
Contributing ==
    {i \in BeforeEnd : Len(Fields(Response[i])) >= 3 /\ Fields(Response[i])[1] = "STAT"}

KeyAt(i) == Fields(Response[i])[2]

\* the latest contributing line with the key of line i
LastFor(i) ==
    CHOOSE j \in Contributing :
       /\ KeyAt(j) = KeyAt(i)
       /\ \A m \in Contributing : KeyAt(m) = KeyAt(i) => m <= j

\* the value strings that are finite decimal numbers
FiniteDecimals == {"0", "4", "6", "42", "100", "140", "1.5", "-3", "1e2"}

\* fetchStats has returned a Snapshot
Sampled == fpc = "returned" /\ fRes.stats # NilSnap

\* fetchStats has returned a Snapshot after it read the terminator
SampledToEnd ==
    Sampled /\ fSeen # <<>> /\ fSeen[Len(fSeen)] = <<"END">>

\* C8: the Snapshot returned for a response read up to its terminator has in
\* raw every key of an accepted line with its value string (the latest one
\* when the key comes more than once), and has a key in values only if that
\* value string is a finite decimal number; so the keys of values are keys
\* of raw.
C8_RawAndValues ==
    SampledToEnd =>
       /\ \A i \in Contributing :
             /\ KeyAt(i) \in DOMAIN fRes.stats.Raw
             /\ fRes.stats.Raw[KeyAt(i)] = ValueOf(Fields(Response[LastFor(i)]))
       /\ \A k \in DOMAIN fRes.stats.Values :
             /\ k \in DOMAIN fRes.stats.Raw
             /\ fRes.stats.Raw[k] \in FiniteDecimals

\* C9: in the Snapshot returned for a response read up to its terminator, a
\* key whose raw value is one ParseFloat rejects is not a key of values.
C9_NonNumericAbsent ==
    SampledToEnd =>
       \A k \in DOMAIN fRes.stats.Raw :
          ~ParseFloat(fRes.stats.Raw[k]).ok => k \notin DOMAIN fRes.stats.Values

\* C10: a line goes into the Snapshot exactly when it comes before the
\* terminator, has at least three tokens and starts with STAT; any other line
\* before the terminator is skipped and the scan goes on; the terminator ends
\* the scan without an error and nothing is read after it.
C10_LineFilter ==
    [][/\ (fpc = "scan" /\ fIn.lines # <<>>) =>
             LET line == Head(fIn.lines)
                 f == Fields(line)
             IN  IF line = <<"END">>
                 THEN /\ fpc' = "returned"
                      /\ fRes'.err = NoErr
                      /\ fRes'.stats.Raw = fRaw
                      /\ fRes'.stats.Values = fValues
                 ELSE /\ fpc' = "scan"
                      /\ IF Len(f) >= 3 /\ f[1] = "STAT"
                         THEN /\ f[2] \in DOMAIN fRaw'
                              /\ fRaw'[f[2]] = ValueOf(f)
                              /\ \A k \in (DOMAIN fRaw') \ {f[2]} :
                                    k \in DOMAIN fRaw /\ fRaw'[k] = fRaw[k]
                         ELSE fRaw' = fRaw /\ fValues' = fValues
       /\ fpc = "returned" => UNCHANGED fetchVars
       /\ (fpc' = "returned" /\ fRes'.stats # NilSnap) =>
             DOMAIN fRes'.stats.Raw = {KeyAt(i)' : i \in Contributing'}]_vars

\* a short line was skipped, the terminator ended the scan without an error,
\* and the data line after it was not read
C10_Witness ==
    /\ Sampled
    /\ fRes.err = NoErr
    /\ fSeen = << <<"STAT", " ", "cmd_get">>, <<"END">> >>
    /\ fIn.lines = <<Line("cmd_get", "42")>>
    /\ fRes.stats.Raw = EmptyMap

\* a call before the scan loop failed, or the scan loop was left on a failed
\* read
CallFailed ==
    \/ fNet # "ok"
    \/ (fIn.lines = <<>> /\ fIn.end = "err"
          /\ (fSeen = <<>> \/ fSeen[Len(fSeen)] # <<"END">>))

\* C11: a returned call gives a Snapshot or an error and never both; a failed
\* connect, deadline set-up, write or read gives the error and no Snapshot;
\* and a Snapshot is given only after the terminator line END was read.
C11_SnapshotOrError ==
    fpc = "returned" =>
       /\ (fRes.stats = NilSnap) <=> (fRes.err # NoErr)
       /\ CallFailed => (fRes.stats = NilSnap /\ fRes.err # NoErr)
       /\ Sampled => SampledToEnd

-----------------------------------------------------------------------------
(* Properties of drawScreen *)

\* the texts of the metric section
MetricTexts ==
    { "Time", "Requests", "Memory", "Connections", "Commands/s", "Bandwidth/s",
      "Items", "Slabs" }

\* the texts the returned drawScreen call put on the surface
Written == {dOut[i].text : i \in DOMAIN dOut}

\* C12: on a surface of at least 3 rows and a positive width, a drawScreen
\* call with an error leaves the error line on its row when it returns, and
\* with a Snapshot as well it has written every line of the metric section.
C12_ErrorLineVisible ==
    (dpc = "returned" /\ dSize.h >= 3 /\ dSize.w > 0 /\ dErr # NoErr) =>
       /\ Display(dSize, dOut)[2] = "Error"
       /\ dStats # NilSnap => MetricTexts \subseteq Written

-----------------------------------------------------------------------------
(* More properties of the loop *)

\* the texts the latest drawScreen call of the loop put on the surface
ShownTexts == {shown.lines[i].text : i \in DOMAIN shown.lines}

-----------------------------------------------------------------------------
(* Properties of the formatters *)

\* C14: formatUptime returns "0s" for an argument that is not positive, and
\* for a positive whole number of seconds s it returns the fields
\* days = s div 86400, hours = (s mod 86400) div 3600,
\* minutes = (s mod 3600) div 60 and seconds = s mod 60, the last three on two
\* digits, with the day field in front exactly when days >= 1. (s is
\* 60 * min + sec, so the four fields are min div 1440, (min mod 1440) div 60,
\* min mod 60 and sec.)
C14_Uptime ==
    (fmtpc = "returned" /\ fmtFn = "formatUptime") =>
       IF SecsLeZero(fmtIn) THEN fmtOut = "0s"
       ELSE fmtIn.nsec = 0 =>
               LET days == fmtIn.min \div 1440
                   hours == (fmtIn.min % 1440) \div 60
                   minutes == fmtIn.min % 60
                   seconds == fmtIn.sec
                   hms == Pad2(hours) \o "h " \o Pad2(minutes) \o "m "
                             \o Pad2(seconds) \o "s"
               IN  fmtOut = IF days >= 1 THEN ToString(days) \o "d " \o hms
                            ELSE hms

\* b / 1024^k < 1024, for b >= 0
BelowUnit(b, k) == b.exp <= k

\* C15: formatBytes takes a negative byte count as 0, picks for the unit the
\* smallest k in 0..5 (B, KB, MB, GB, TB, PB) with b / 1024^k < 1024, or 5 when
\* there is none, and returns b / 1024^k with no decimals when k = 0 and with
\* one decimal when k > 0, followed by a space and the unit.
C15_Bytes ==
    (fmtpc = "returned" /\ fmtFn = "formatBytes") =>
       LET b == IF fmtIn.neg /\ fmtIn.num > 0 THEN Bytes(FALSE, 0, 1, 0)
                ELSE fmtIn
           k == IF \E j \in 0..5 : BelowUnit(b, j)
                THEN CHOOSE j \in 0..5 :
                        BelowUnit(b, j) /\ \A i \in 0..(j - 1) : ~BelowUnit(b, i)
                ELSE 5
           scaled == [b EXCEPT !.exp = @ - k]
           name == <<"B", "KB", "MB", "GB", "TB", "PB">>[k + 1]
       IN  fmtOut = Fixed(scaled, IF k = 0 THEN 0 ELSE 1) \o " " \o name

\* 1024^6 bytes, beyond the last unit, came out in PB
C15_Witness ==
    /\ fmtpc = "returned"
    /\ fmtFn = "formatBytes"
    /\ fmtIn = Bytes(FALSE, 1, 1, 6)
    /\ fmtOut = "1024.0 PB"

-----------------------------------------------------------------------------
(* Rendering and the loop *)

\* a step of the loop that took an occurrence from the ticker or the queue
TookOccurrence == ticks' = ticks + 1 \/ Len(eventCh') = Len(eventCh) - 1

\* C16: a step that processes a successful tick, a failed tick or a reset
\* makes exactly one drawScreen call, with the Render State the step leaves,
\* within the step, so before the next occurrence is taken; every step that
\* changes the Render State draws; and from the first render on the latest
\* drawScreen call was made with the current Render State.
C16_OneRenderPerTransition ==
    [][/\ (TickSucceeded \/ TickFailed \/ \E ev \in ResetInputs : Received(ev)) =>
             /\ draws' = 1
             /\ shown' = Render(size', currentStats', rates', lastErr')
       /\ Here' # Here => (TookOccurrence /\ draws' = 1)
       /\ draws' <= 1
       /\ pc' # "start" => ShowsState']_vars

\* a failed tick was drawn, error beside the Snapshot of an earlier tick, while
\* an input event was waiting in the queue
C16_Witness ==
    /\ op = "tickFail"
    /\ draws = 1
    /\ eventCh # <<>>
    /\ currentStats # NilSnap
    /\ shown = Render(size, currentStats, rates, lastErr)
    /\ shown.err = err
    /\ err # NoErr

-----------------------------------------------------------------------------
(* Connections *)

\* C17: a call starts without a connection and opens its own; between the
\* dial and the return that connection is open and is the only one; when the
\* call has returned, by whichever way, no connection is open: the call's
\* connection is closed, or was never opened when the dial failed.
C17_ConnectionScoped ==
    /\ fOpen \in {0, 1}
    /\ fpc = "dial" => (fConn = "none" /\ fOpen = 0)
    /\ fpc \in {"deadline", "write", "scan"} => (fConn = "open" /\ fOpen = 1)
    /\ fpc = "returned" =>
          /\ fOpen = 0
          /\ fConn = IF fRes.err = ErrDial THEN "none" ELSE "closed"

\* the second call of a run has returned on a failed read, after a line was
\* read, with its connection closed
C17_Witness ==
    /\ fCalls = 2
    /\ fpc = "returned"
    /\ fRes.err = ErrRead
    /\ fSeen # <<>>
    /\ fConn = "closed"
    /\ fOpen = 0

-----------------------------------------------------------------------------
(* The two goroutines *)

\* a step of the input producer goroutine
ProducerStep == ppc' # ppc

\* a step of the goroutine of main
LoopStep == pc' # pc \/ ticks' # ticks \/ Len(eventCh') < Len(eventCh)

\* C18: a step belongs to the loop or to the producer, never to both; a loop
\* step processes one occurrence, a tick (one fetchStats call) or one input
\* event (one classification), with at most one drawScreen call; the Render
\* State changes in loop steps only; a producer step leaves every variable
\* of the loop alone and at most appends the event it holds to the queue; a
\* loop step leaves the producer's variables alone and at most takes the head
\* of the queue.
C18_SingleThreadedState ==
    [][/\ ~(ProducerStep /\ LoopStep)
       /\ ~(ticks' = ticks + 1 /\ Len(eventCh') < Len(eventCh))
       /\ ticks' \in {ticks, ticks + 1}
       /\ draws' <= 1
       /\ Here' # Here => LoopStep
       /\ ProducerStep =>
             /\ UNCHANGED <<pc, currentStats, prevStats, rates, lastErr, stats,
                            err, op, baseline, now, ticks, draws, shown, ticker,
                            screen>>
             /\ eventCh' = eventCh \/ eventCh' = Append(eventCh, pev)
       /\ LoopStep =>
             /\ UNCHANGED <<ppc, pev, polled, chClosed>>
             /\ eventCh' = eventCh \/ eventCh' = Tail(eventCh)]_vars

\* the producer holds an event it has not queued yet, behind one already
\* queued, while the loop has just drawn a successful sample
C18_Witness ==
    /\ ppc = "send"
    /\ pev # NoEvent
    /\ eventCh # <<>>
    /\ op = "tickOk"
    /\ draws = 1
    /\ ShowsState
    /\ currentStats # NilSnap

-----------------------------------------------------------------------------
(* The event queue *)

\* C19: the queue never holds more than 8 events; the producer puts the event
\* it holds at the tail and only when there is room, and keeps it, waiting,
\* while the queue is full; the loop takes events from the head only, each
\* one the successor of the event it took before, and handles the event it
\* took; so every event PollEvent has delivered is, in the order of delivery,
\* already taken by the loop, in the queue, or held by the producer, and
\* while the loop is in its select with a non-empty queue it can take the
\* head.
C19_QueueKeepsEvents ==
    [][/\ Len(eventCh') <= ChanCap
       /\ polled' # polled => (polled' = polled + 1 /\ pev'.n = polled')
       /\ Len(eventCh') > Len(eventCh) =>
             /\ ppc = "send"
             /\ Len(eventCh) < ChanCap
             /\ eventCh' = Append(eventCh, pev)
       /\ (ppc = "send" /\ Len(eventCh) = ChanCap /\ ~LoopStep) =>
             (ppc' = "send" /\ pev' = pev /\ eventCh' = eventCh)
       /\ Len(eventCh') < Len(eventCh) =>
             /\ pc = "loop"
             /\ eventCh' = Tail(eventCh)
             /\ Head(eventCh).n = taken + 1
             /\ taken' = taken + 1
             /\ op' = classify(Head(eventCh))
       /\ taken' # taken => Len(eventCh') < Len(eventCh)
       /\ \A i \in DOMAIN eventCh' : eventCh'[i].n = taken' + i
       /\ polled' = taken' + Len(eventCh') + (IF ppc' = "send" THEN 1 ELSE 0)
       /\ (pc' = "loop" /\ eventCh' # <<>>) => (ENABLED Receive)']_vars

\* the queue is full with the events 2 to 9, the producer waits with the
\* tenth, and the loop, which has taken the first, has drawn a sample since
C19_Witness ==
    /\ pc = "loop"
    /\ taken = 1
    /\ Len(eventCh) = ChanCap
    /\ ppc = "send"
    /\ pev.n = taken + ChanCap + 1
    /\ ticks > 0
    /\ op \in {"tickOk", "tickFail"}

-----------------------------------------------------------------------------
(* Resize and inputs without a meaning *)

\* the loop takes a resize event from the queue
ResizeReceived == Received(ResizeEvent)

\* the loop takes from the queue an event that is no quit key, no reset key
\* and no resize
OtherReceived ==
    \E ev \in Events \ (QuitInputs \cup ResetInputs \cup {ResizeEvent}) : Received(ev)

\* C20: a step that processes a resize event or an input without a meaning
\* leaves latest Snapshot, previous Snapshot, Rate Table and stored error as
\* they were, calls fetchStats not at all and stays in the loop; for an input
\* without a meaning it draws nothing and does not sync; for a resize it
\* calls screen.Sync() and makes exactly one drawScreen call, with that
\* unchanged state on the surface as it is now.
C20_ResizeAndIgnored ==
    [][/\ (ResizeReceived \/ OtherReceived) =>
             /\ Here' = Here
             /\ ticks' = ticks
             /\ UNCHANGED <<stats, err>>
             /\ pc' = "loop"
       /\ OtherReceived =>
             /\ draws' = 0
             /\ ~synced'
             /\ shown' = shown
       /\ ResizeReceived =>
             /\ synced'
             /\ draws' = 1
             /\ shown' = Render(size', currentStats, rates, lastErr)
       /\ synced' => (ResizeReceived \/ (synced /\ ~LoopStep))]_vars

\* a resize was processed with rates on display: synced, drawn once, the
\* Snapshots and the rates of the latest tick still there
C20_Witness ==
    /\ op = "resize"
    /\ synced
    /\ draws = 1
    /\ lastErr = NoErr
    /\ prevStats # NilSnap
    /\ rates # EmptyMap
    /\ shown = Render(size, currentStats, rates, lastErr)

-----------------------------------------------------------------------------
(* The end of input *)

\* the loop leaves on the receive that reports the closed queue
ClosedObserved == pc = "loop" /\ pc' = "stopTicker" /\ op' = "closed"

\* C21 as stated: once the producer has closed the queue, the next receive of
\* the loop ends the loop without a render, also with events still queued.
C21_ClosedEndsAtOnce ==
    [][(chClosed /\ pc = "loop" /\ LoopStep /\ ticks' = ticks) =>
          (pc' = "stopTicker" /\ draws' = 0)]_vars

\* C21, amended: only the producer closes the queue, when PollEvent returns
\* no event, and it leaves the queued events in place; the loop takes the
\* events queued before the closure in order and handles each as usual, and
\* observes the closure only on an empty queue; it then leaves as for a quit:
\* nothing drawn, nothing sampled and the Render State untouched in that step
\* and in every later one, the ticker stopped and the screen finalized when
\* main has returned.
C21_ClosedAfterDrain ==
    [][/\ chClosed' # chClosed =>
             /\ chClosed'
             /\ ppc = "poll" /\ ppc' = "exited"
             /\ eventCh' = eventCh
             /\ UNCHANGED loopVars
       /\ chClosed => (chClosed' /\ polled' = polled /\ ppc' = "exited")
       /\ (chClosed /\ Len(eventCh') < Len(eventCh)) =>
             /\ eventCh' = Tail(eventCh)
             /\ op' = classify(Head(eventCh))
             /\ draws' = IF op' \in {"reset", "resize"} THEN 1 ELSE 0
       /\ ClosedObserved =>
             /\ chClosed
             /\ eventCh = <<>>
             /\ taken = polled
             /\ draws' = 0
             /\ ticks' = ticks
             /\ Here' = Here
             /\ shown' = shown
       /\ (op = "closed" /\ pc # "loop") =>
             /\ pc' \notin {"start", "loop"}
             /\ draws' = 0
             /\ ticks' = ticks
             /\ Here' = Here
             /\ shown' = shown
       /\ (op' = "closed" /\ pc' = "returned") =>
             (ticker' = "stopped" /\ screen' = "finalized")]_vars

\* main has returned on the closed queue after it took both events that were
\* delivered before the input ended, and a tick
C21_Witness ==
    /\ pc = "returned"
    /\ op = "closed"
    /\ chClosed
    /\ polled = 2
    /\ taken = 2
    /\ ticks > 0
    /\ ticker = "stopped"
    /\ screen = "finalized"

-----------------------------------------------------------------------------
(* The time one fetchStats call takes *)

\* time is counted in half seconds
TimeUnit == 2

\* const defaultTimeout = 2 * time.Second (main.go:27)
defaultTimeout == 2 * TimeUnit

\* how long the network takes over one operation when nothing cuts it short;
\* the last value stands for every time longer than defaultTimeout
Delays == 0..(defaultTimeout + 1)

ErrDialTimeout == "dial tcp: i/o timeout"
ErrWriteTimeout == "write tcp: i/o timeout"
ErrReset == "read tcp: connection reset by peer"

\* an operation on conn that needs d is cut short by the deadline of conn
PastDeadline(d) == tNow + d >= tDeadline

\* fetchStats returns e after the operation in progress has taken d
TReturn(e, d) ==
    /\ tpc' = "returned"
    /\ tErr' = e
    /\ tNow' = tNow + d
    /\ UNCHANGED <<tDeadline, tLeft, tEnd>>

\* net.DialTimeout("tcp", addr, defaultTimeout) (main.go:141-145): the
\* timeout of the dial is counted from the start of the dial
TDial ==
    /\ tpc = "dial"
    /\ \E d \in Delays, refused \in BOOLEAN :
          IF d >= defaultTimeout
          THEN TReturn(ErrDialTimeout, defaultTimeout)
          ELSE IF refused
               THEN TReturn(ErrDial, d)
               ELSE /\ tpc' = "deadline"
                    /\ tNow' = tNow + d
                    /\ UNCHANGED <<tDeadline, tLeft, tEnd, tErr>>
    /\ UNCHANGED <<loopVars, prodVars, fetchVars, rateVars, drawVars, fmtVars>>

\* conn.SetDeadline(time.Now().Add(defaultTimeout)) (main.go:147-149): the
\* deadline is counted from the time the dial returned
TSetDeadline ==
    /\ tpc = "deadline"
    /\ \E fails \in BOOLEAN :
          IF fails
          THEN TReturn(ErrDeadline, 0)
          ELSE /\ tDeadline' = tNow + defaultTimeout
               /\ tpc' = "write"
               /\ UNCHANGED <<tNow, tLeft, tEnd, tErr>>
    /\ UNCHANGED <<loopVars, prodVars, fetchVars, rateVars, drawVars, fmtVars>>

\* fmt.Fprint(conn, "stats\r\n") (main.go:151-153)
TWrite ==
    /\ tpc = "write"
    /\ \E d \in Delays, fails \in BOOLEAN :
          IF PastDeadline(d)
          THEN TReturn(ErrWriteTimeout, tDeadline - tNow)
          ELSE IF fails
               THEN TReturn(ErrWrite, d)
               ELSE /\ tpc' = "scan"
                    /\ tNow' = tNow + d
                    /\ UNCHANGED <<tDeadline, tLeft, tEnd, tErr>>
    /\ UNCHANGED <<loopVars, prodVars, fetchVars, rateVars, drawVars, fmtVars>>

\* scanner.Scan() waits for a line other than the terminator
\* (main.go:159-174, 175-177)
TScan ==
    /\ tpc = "scan"
    /\ tLeft > 0
    /\ \E d \in Delays :
          IF PastDeadline(d)
          THEN TReturn(ErrRead, tDeadline - tNow)
          ELSE /\ tLeft' = tLeft - 1
               /\ tNow' = tNow + d
               /\ UNCHANGED <<tpc, tDeadline, tEnd, tErr>>
    /\ UNCHANGED <<loopVars, prodVars, fetchVars, rateVars, drawVars, fmtVars>>

\* scanner.Scan() waits for what ends the response: the terminator, the end of
\* the stream or a failed read (main.go:159-163, 175-183)
TScanStop ==
    /\ tpc = "scan"
    /\ tLeft = 0
    /\ \E d \in Delays :
          IF PastDeadline(d)
          THEN TReturn(ErrRead, tDeadline - tNow)
          ELSE TReturn(IF tEnd = "err" THEN ErrReset ELSE NoErr, d)
    /\ UNCHANGED <<loopVars, prodVars, fetchVars, rateVars, drawVars, fmtVars>>

InitDeadline ==
    /\ InitLoop
    /\ InitFetchIdle
    /\ InitRatesIdle
    /\ InitDrawIdle
    /\ InitFmtIdle
    /\ tpc = "dial"
    /\ tNow = 0
    /\ tDeadline = NoDeadline
    /\ tLeft \in 0..MaxLines
    /\ tEnd \in {"END", "eof", "err"}
    /\ tErr = NoErr

NextDeadline ==
    \/ TDial
    \/ TSetDeadline
    \/ TWrite
    \/ TScan
    \/ TScanStop

SpecDeadline == InitDeadline /\ [][NextDeadline]_vars

\* C22: a fetchStats call takes at most one defaultTimeout from its start to
\* its return, over the dial, the write and the reads together: at no point
\* of the call, the connection made, the request sent or a line awaited, has
\* more than defaultTimeout passed since the call began.
C22_OneTimeout == tNow <= defaultTimeout

-----------------------------------------------------------------------------
(* The bounds of the surface *)

\* the cells a drawScreen call set on row y
CellsOn(y) == {c \in dCells : c.row = y}

\* the rows drawScreen wrote a text on
RowsWritten == {dOut[i].row : i \in DOMAIN dOut}

\* C23: every cell drawScreen sets lies on the surface, 0 <= column < width
\* and 0 <= row < height, for every size, zero and one included, and every
\* text; a surface without rows or columns gets no cell; a text stays on the
\* row it was drawn on, loses only what starts at or beyond the right edge
\* and keeps every rune that starts left of it.
C23_WithinBounds ==
    dpc = "returned" =>
       /\ \A c \in dCells :
             /\ 0 <= c.col /\ c.col < dSize.w
             /\ 0 <= c.row /\ c.row < dSize.h
             /\ c.row \in RowsWritten
       /\ (dSize.w <= 0 \/ dSize.h <= 0) => dCells = {}
       /\ \A y \in RowsWritten :
             \A k \in DOMAIN RuneOffsets(dText) :
                RuneOffsets(dText)[k] < dSize.w <=>
                   [col |-> RuneOffsets(dText)[k], row |-> y] \in CellsOn(y)

\* a text longer than the surface is wide was drawn: its rune in the last
\* column is set, the rows written are on the surface, and the runes that
\* follow were dropped
C23_Witness ==
    /\ dpc = "returned"
    /\ dSize.w = 80
    /\ dText = TextShape(79, 2)
    /\ RowsWritten # {}
    /\ \A y \in RowsWritten : [col |-> 79, row |-> y] \in dCells
    /\ Cardinality(dCells) = 80 * Cardinality(RowsWritten)

-----------------------------------------------------------------------------
(* The loop under a timer that is always ready *)

\* the clock readings the model follows; beyond it the clock is read as not
\* having advanced
MaxClock == MaxTime

\* case <-ticker.C (main.go:101-115) with a tick ready whenever the loop is
\* back at its select: ticks is counted up to MaxTicks and no further
TickAlways ==
    /\ pc = "loop"
    /\ ticker = "running"
    /\ \E net \in Nets, in \in LoopStreams, d \in {c \in ClockSteps : now + c <= MaxClock} :
          \E res \in {fetchStats(net, in, now + d)} :
             \E s \in {onSample(Here, res)} :
                /\ now' = IF res.err = NoErr THEN now + d ELSE now
                /\ stats' = res.stats
                /\ err' = res.err
                /\ SetState(s)
                /\ op' = IF res.err = NoErr THEN "tickOk" ELSE "tickFail"
                /\ baseline' = IF res.err = NoErr THEN prevStats ELSE baseline
                /\ shown' = Render(size, s.currentStats, s.rates, s.lastErr)
    /\ ticks' = IF ticks < MaxTicks THEN ticks + 1 ELSE ticks
    /\ draws' = 1
    /\ synced' = FALSE
    /\ UNCHANGED <<pc, ticker, screen, size>>
    /\ UNCHANGED <<taken, prodVars, fetchVars, rateVars, callVars>>

\* screen.PollEvent() returns a key (main.go:77): the quit key, or a reset
\* key that the loop has to handle ahead of a later quit key
PollKey ==
    /\ polled < MaxEvents
    /\ Deliver({KeyEvent("Rune", "q"), KeyEvent("Rune", "r")})

NextAlways ==
    \/ InitialRender
    \/ TickAlways
    \/ Receive
    \/ ReceiveClosed
    \/ StopTicker
    \/ Fini
    \/ PollKey
    \/ PollNil
    \/ Send

\* main's goroutine keeps running; select (main.go:99-100) picks at random
\* among its ready cases, so that the event case, ready at every select once
\* an event is queued, is not passed over for ever; the producer goroutine is
\* scheduled, so that its blocked send completes once the buffer has room
Fairness ==
    /\ WF_vars(InitialRender)
    /\ WF_vars(Receive)
    /\ WF_vars(StopTicker)
    /\ WF_vars(Fini)
    /\ WF_vars(Send)

SpecAlways == Init /\ [][NextAlways]_vars /\ Fairness

\* PollEvent has returned a quit key that the loop has not taken yet
QuitDelivered ==
    \/ \E i \in DOMAIN eventCh : classify(eventCh[i]) = "quit"
    \/ ppc = "send" /\ classify(pev) = "quit"

\* the timer case and the event case of the select are both ready
BothReady == pc = "loop" /\ ticker = "running" /\ eventCh # <<>>

\* C24: with fetchStats always returning and a fair choice between the ready
\* timer and the ready queue, a quit key that PollEvent has returned is
\* eventually taken and main returns, although a tick is ready at every
\* select; the quit does not preempt: the loop is left only by a receive at
\* the select, which samples and draws nothing, and a tick taken while the
\* quit waits runs its fetchStats and drawScreen to the end.
C24_QuitEventuallyTaken ==
    /\ QuitDelivered ~> (pc = "returned")
    /\ [][/\ (pc = "loop" /\ pc' # "loop") =>
                /\ pc' = "stopTicker"
                /\ op' \in {"quit", "closed"}
                /\ ticks' = ticks
                /\ draws' = 0
                /\ Here' = Here
          /\ (BothReady /\ QuitDelivered /\ ticks' # ticks) =>
                /\ pc' = "loop"
                /\ op' \in {"tickOk", "tickFail"}
                /\ draws' = 1
                /\ ShowsState'
                /\ eventCh' = eventCh]_vars

\* a quit key is at the head of the queue at the select while the timer,
\* after MaxTicks ticks, is ready once more, and a tick was taken last
C24_Witness ==
    /\ BothReady
    /\ classify(Head(eventCh)) = "quit"
    /\ ticks = MaxTicks
    /\ op \in {"tickOk", "tickFail"}

-----------------------------------------------------------------------------
(* The Render State as a whole *)

\* C25: in every state of the loop prevStats is nil or is the Snapshot in
\* currentStats; rates is non-empty only with prevStats present; and every
\* key of rates is a key of currentStats.Values.
C25_RenderStateShape ==
    /\ prevStats = NilSnap \/ prevStats = currentStats
    /\ rates # EmptyMap => prevStats # NilSnap
    /\ currentStats = NilSnap => rates = EmptyMap
    /\ currentStats # NilSnap => DOMAIN rates \subseteq DOMAIN currentStats.Values

\* after two successful ticks the baseline is the latest Snapshot and the
\* Rate Table holds a rate for one of the two numeric keys of that Snapshot
C25_Witness ==
    /\ pc = "loop"
    /\ op = "tickOk"
    /\ prevStats # NilSnap
    /\ prevStats = currentStats
    /\ DOMAIN rates # {}
    /\ DOMAIN rates # DOMAIN currentStats.Values

====
